---- MODULE Spec2Model ----
(***************************************************************************)
(* Model of the data-access layer of clean-architecture-fastapi:           *)
(*   - the relational schema of orm/tables.py (orders, products,           *)
(*     order_items with their keys, defaults and cascading foreign keys),  *)
(*   - SQLAlchemyRepository (data_access/repository.py), one action per    *)
(*     method, each executing one statement on the repository's session,   *)
(*   - the delete-order handler (delete_order/handler.py), one action per  *)
(*     await point, inside the Unit-of-Work scope it opens.                *)
(* The session is an AsyncSession on PostgreSQL: the first statement       *)
(* begins a transaction implicitly, nothing is committed until the         *)
(* session is told to commit, and a statement that fails leaves the        *)
(* transaction aborted until it is rolled back.                            *)
(***************************************************************************)
EXTENDS Integers, Sequences, FiniteSets, TLC

(* ------------------------------ bounds --------------------------------- *)

\* Identity values the three tables' sequences hand out in one behaviour,
\* all tables together.
MaxInserts == 3

\* SQL NULL, also "keyword argument not supplied" in **values.
NULL == 0

\* server_default=text("1") of products.weight and order_items.quantity.
ServerDefaultOne == 1

\* server_default=func.now() of created_at: one instant stands for the clock.
Now == 0

Dates == {1}
Prices == {500}
Weights == {ServerDefaultOne, 2}
Quantities == {ServerDefaultOne, 3}

Models == {"orders", "products", "order_items"}

(* ------------------------------ schema --------------------------------- *)

\* Rows of the three tables (users is left empty: orders.user_id is NULL).
OrderRow(id, date) ==
    [id |-> id, created_at |-> Now, order_date |-> date, user_id |-> NULL]

ProductRow(id, price, weight) ==
    [id |-> id, created_at |-> Now, price |-> price, weight |-> weight]

OrderItemRow(id, oid, pid, qty) ==
    [id |-> id, order_id |-> oid, product_id |-> pid, quantity |-> qty]

EmptyDb == [m \in Models |-> {}]

\* Columns a caller may set; the identity column is GENERATED ALWAYS.
SettableCols(m) ==
    CASE m = "orders" -> {"order_date"}
      [] m = "products" -> {"price", "weight"}
      [] m = "order_items" -> {"order_id", "product_id", "quantity"}

\* Columns declared nullable=False that have no server default.
RequiredCols(m) ==
    CASE m = "orders" -> {"order_date"}
      [] m = "products" -> {"price"}
      [] m = "order_items" -> {"order_id"}

Matches(r, cs) == \A c \in cs : r[c.col] = c.val

Matching(t, m, cs) == {r \in t[m] : Matches(r, cs)}

\* The rows of a set as a sequence in identity order.
RECURSIVE ById(_)
ById(S) ==
    IF S = {} THEN <<>>
    ELSE LET r == CHOOSE x \in S : \A y \in S : x.id <= y.id
         IN <<r>> \o ById(S \ {r})

\* A value of a result row: a mapped entity or a plain column value.
Entity(r) == [obj |-> <<r>>, col |-> NULL]

Scalar(v) == [obj |-> <<>>, col |-> v]

\* Table columns in declaration order, as RETURNING * lists them.
ColumnsOf(m) ==
    CASE m = "orders" -> <<"id", "created_at", "order_date", "user_id">>
      [] m = "products" -> <<"id", "created_at", "price", "weight">>
      [] m = "order_items" -> <<"id", "order_id", "product_id", "quantity">>

\* Result.scalars(): the first element of every result row.
Scalars(result) == [i \in 1..Len(result) |-> result[i][1]]

(* ------------------------ statements (PostgreSQL) ---------------------- *)

\* NewRow gone wrong: the server defaults overwrite a supplied weight or
\* quantity.
NewRowDefaultsOnly(m, V, id) ==
    CASE m = "orders" -> OrderRow(id, V.order_date)
      [] m = "products" -> ProductRow(id, V.price, ServerDefaultOne)
      [] m = "order_items" -> OrderItemRow(id, V.order_id, V.product_id, ServerDefaultOne)

\* The row INSERT builds from **values: identity from the sequence, server
\* defaults for the columns not supplied.
NewRow(m, V, id) ==
    CASE m = "orders" -> OrderRow(id, V.order_date)
      [] m = "products" ->
            ProductRow(id, V.price,
                       IF V.weight = NULL THEN ServerDefaultOne ELSE V.weight)
      [] m = "order_items" ->
            OrderItemRow(id, V.order_id, V.product_id,
                         IF V.quantity = NULL THEN ServerDefaultOne ELSE V.quantity)

NotNullViolated(m, r) == \E c \in RequiredCols(m) : r[c] = NULL

\* UniqueConflict gone wrong: order_items.order_id declared without unique.
NoUniqueConflict(t, m, r) == FALSE

\* order_items.order_id is unique=True.
UniqueConflict(t, m, r) ==
    m = "order_items" /\ \E x \in t[m] : x.id # r.id /\ x.order_id = r.order_id

\* order_items.order_id -> orders.id, order_items.product_id -> products.id.
ForeignKeyViolated(t, m, r) ==
    m = "order_items" /\
       (\/ r.order_id \notin {o.id : o \in t["orders"]}
        \/ (r.product_id # NULL /\ r.product_id \notin {p.id : p \in t["products"]}))

\* INSERT ... ON CONFLICT DO NOTHING: [t: tables after, err: error raised].
InsertStmt(t, m, V, id) ==
    LET r == NewRow(m, V, id) IN
    IF NotNullViolated(m, r)
    THEN [t |-> t, err |-> "ConstraintViolation", result |-> <<>>]
    ELSE IF UniqueConflict(t, m, r)
    THEN [t |-> t, err |-> "none", result |-> <<>>]
    ELSE IF ForeignKeyViolated(t, m, r)
    THEN [t |-> t, err |-> "ConstraintViolation", result |-> <<>>]
    ELSE [t |-> [t EXCEPT ![m] = @ \cup {r}], err |-> "none", result |-> <<>>]

\* The row UPDATE ... SET writes for r: supplied columns replaced.
Updated(m, r, V) ==
    [c \in DOMAIN r |-> IF c \in SettableCols(m) /\ V[c] # NULL THEN V[c] ELSE r[c]]

\* UPDATE ... WHERE ... SET ... RETURNING NULL.
UpdateStmt(t, m, cs, V) ==
    LET hit == Matching(t, m, cs)
        new == {Updated(m, r, V) : r \in hit}
        after == [t EXCEPT ![m] = (@ \ hit) \cup new]
    IN  IF \/ \E r \in new : UniqueConflict(after, m, r)
           \/ \E r \in new : ForeignKeyViolated(after, m, r)
        THEN [t |-> t, err |-> "ConstraintViolation", result |-> <<>>]
        ELSE [t |-> after, err |-> "none",
              result |-> [i \in 1..Cardinality(hit) |-> <<Scalar(NULL)>>]]

\* Cascade gone wrong: the foreign keys declared without ondelete.
CascadeNothing(t, m, gone) == t

\* ondelete="CASCADE" of both order_items foreign keys: deleting rows of
\* orders or products deletes the order_items rows that reference them.
Cascade(t, m, gone) ==
    CASE m = "orders" ->
            [t EXCEPT !["order_items"] = {i \in @ : i.order_id \notin gone}]
      [] m = "products" ->
            [t EXCEPT !["order_items"] = {i \in @ : i.product_id \notin gone}]
      [] m = "order_items" -> t

\* DELETE ... WHERE ... RETURNING *: one result row per deleted row, holding
\* the row's column values.
DeleteStmt(t, m, cs) ==
    LET hit == ById(Matching(t, m, cs))
    IN  [t |-> Cascade([t EXCEPT ![m] = @ \ Matching(t, m, cs)], m,
                       {r.id : r \in Matching(t, m, cs)}),
         err |-> "none",
         result |-> [i \in 1..Len(hit) |->
                        [k \in 1..Len(ColumnsOf(m)) |-> Scalar(hit[i][ColumnsOf(m)[k]])]]]

\* SELECT <entity> WHERE ...: one result row per match, holding the entity.
SelectStmt(t, m, cs) ==
    LET hit == ById(Matching(t, m, cs))
    IN  [t |-> t, err |-> "none",
         result |-> [i \in 1..Len(hit) |-> <<Entity(hit[i])>>]]

\* SELECT count(*) [WHERE ...]: the FROM list comes from the clauses only,
\* so without clauses the statement has no FROM and yields the count 1.
CountStmt(t, m, cs) ==
    [t |-> t, err |-> "none",
     result |-> << <<Scalar(IF cs = {} THEN 1 ELSE Cardinality(Matching(t, m, cs)))>> >>]

\* SELECT EXISTS (SELECT ... WHERE ...), 1 for true and 0 for false.
ExistsStmt(t, m, cs) ==
    [t |-> t, err |-> "none",
     result |-> << <<Scalar(IF Matching(t, m, cs) # {} THEN 1 ELSE 0)>> >>]

(* ------------------------------- state --------------------------------- *)

Flows == {"f1", "f2"}

VARIABLES
    db,          \* committed contents of the tables, what other sessions see
    tx,          \* the tables as seen inside the session's transaction
    aborted,     \* the session's transaction is in the failed state
    seq,         \* next value of each table's identity sequence
    repository,  \* the handler's self._repository: [model, session]
    pc,          \* position of each handle() call
    cmd,         \* event.order_id of each handle() call in flight
    scope,       \* Unit-of-Work scope held by each handle() call
    savepoint,   \* tables at the entry of a nested scope
    entryDb,     \* committed contents when the scope was entered
    ret,         \* what the last completed call (a repository method, or
                 \* handle) returned or raised; none once a new handle() starts
    stmtErr,     \* error the session raised for the last statement
    concurrent,  \* handle() calls run as concurrent tasks
    nestedOk     \* the backend supports nested (savepoint) scopes

vars == <<db, tx, aborted, seq, repository, pc, cmd, scope, savepoint, entryDb,
          ret, stmtErr, concurrent, nestedOk>>

Running == IF concurrent THEN Flows ELSE {"f1"}

NoRet ==
    [op |-> "none", model |-> "none", session |-> "none", by |-> "none",
     err |-> "none", none |-> TRUE, value |-> <<>>]

(* ------------------------------- inputs -------------------------------- *)

\* Identity values a caller can name for table m: those the sequence has
\* handed out, and the next one, which stands for every identity that no
\* row has.
IdsOf(m) == 1..seq[m]

\* Value sets a caller passes to add (**values); NULL = key absent. A
\* supplied weight or quantity is the one that differs from the default.
ValuesOf(m) ==
    CASE m = "orders" -> [order_date : Dates \cup {NULL}]
      [] m = "products" -> [price : Prices \cup {NULL}, weight : (Weights \ {ServerDefaultOne}) \cup {NULL}]
      [] m = "order_items" -> [order_id : IdsOf("orders") \cup {NULL},
                               product_id : IdsOf("products") \cup {NULL},
                               quantity : (Quantities \ {ServerDefaultOne}) \cup {NULL}]

\* Clauses: column == value predicates, ANDed when several are given.
ClausesOf(m) ==
    CASE m = "orders" ->
            [col : {"id"}, val : IdsOf(m)] \cup [col : {"order_date"}, val : Dates]
      [] m = "products" ->
            [col : {"id"}, val : IdsOf(m)] \cup [col : {"weight"}, val : Weights]
      [] m = "order_items" ->
            [col : {"id"}, val : IdsOf(m)] \cup [col : {"order_id"}, val : IdsOf("orders")]

\* Value sets a caller passes to update: one column to set.
SetValuesOf(m) ==
    CASE m = "orders" -> [order_date : Dates]
      [] m = "products" -> [price : Prices, weight : {NULL}] \cup [price : {NULL}, weight : Weights]
      [] m = "order_items" ->
            [order_id : IdsOf("orders"), product_id : {NULL}, quantity : {NULL}]
            \cup [order_id : {NULL}, product_id : IdsOf("products"), quantity : {NULL}]
            \cup [order_id : {NULL}, product_id : {NULL}, quantity : Quantities]

\* A connection failure does not depend on the arguments of the call: one
\* argument list stands for all of them.
Args(S, fail) == IF fail THEN {CHOOSE x \in S : TRUE} ELSE S

\* The clause lists a caller passes: none, one clause, or two clauses on
\* different columns.
ClauseSets(m) ==
    {cs \in SUBSET ClausesOf(m) :
        /\ Cardinality(cs) <= 2
        /\ \A c, d \in cs : c.col = d.col => c = d}

\* The clause lists passed to update: none or one clause.
UpdateClauseSets(m) == {cs \in ClauseSets(m) : \A c, d \in cs : c = d}

(* ------------------------------ session -------------------------------- *)

\* AsyncSession.execute(stmt) on the open transaction: out is the statement's
\* outcome on the current tables, fail a connection failure during the call.
\* A failed statement aborts the transaction, whose effects are then lost.
SessionExecute(out, fail) ==
    IF aborted
    THEN [t |-> tx, aborted |-> TRUE, err |-> "InFailedTransaction", result |-> <<>>]
    ELSE IF fail
    THEN [t |-> db, aborted |-> TRUE, err |-> "ConnectionFailure", result |-> <<>>]
    ELSE IF out.err # "none"
    THEN [t |-> db, aborted |-> TRUE, err |-> out.err, result |-> <<>>]
    ELSE [t |-> out.t, aborted |-> FALSE, err |-> "none", result |-> out.result]

(* ----------------------------- repository ------------------------------ *)

\* The call raised err to its caller.
Raised(op, r, err) ==
    [op |-> op, model |-> r.model, session |-> r.session, by |-> "none",
     err |-> err, none |-> FALSE, value |-> <<>>]

\* The call returned normally: None (none = TRUE) or the value.
Returned(op, r, none, value) ==
    [op |-> op, model |-> r.model, session |-> r.session, by |-> "none",
     err |-> "none", none |-> none, value |-> value]

\* Outcome gone wrong: the method catches the session's error and returns.
OutcomeSwallowing(op, r, e, none, value) ==
    [t |-> e.t, aborted |-> e.aborted, stmtErr |-> e.err,
     ret |-> Returned(op, r, TRUE, <<>>)]

\* What a method hands back for the executed statement e: nothing catches
\* the session's error, so it propagates; otherwise the method's value.
Outcome(op, r, e, none, value) ==
    [t |-> e.t, aborted |-> e.aborted, stmtErr |-> e.err,
     ret |-> IF e.err # "none" THEN Raised(op, r, e.err)
             ELSE Returned(op, r, none, value)]

RepoAdd(r, V, fail) ==
    LET e == SessionExecute(InsertStmt(tx, r.model, V, seq[r.model]), fail)
    IN  Outcome("add", r, e, TRUE, <<>>)

RepoGetAll(r, cs, fail) ==
    LET e == SessionExecute(SelectStmt(tx, r.model, cs), fail)
    IN  Outcome("get_all", r, e, FALSE, Scalars(e.result))

RepoGetOne(r, cs, fail) ==
    LET e == SessionExecute(SelectStmt(tx, r.model, cs), fail)
        all == Scalars(e.result)
    IN  Outcome("get_one", r, e, all = <<>>, IF all = <<>> THEN <<>> ELSE <<all[1]>>)

RepoUpdate(r, cs, V, fail) ==
    LET e == SessionExecute(UpdateStmt(tx, r.model, cs, V), fail)
    IN  Outcome("update", r, e, TRUE, <<>>)

RepoExists(r, cs, fail) ==
    LET e == SessionExecute(ExistsStmt(tx, r.model, cs), fail)
    IN  Outcome("exists", r, e, FALSE, IF e.result = <<>> THEN <<>> ELSE <<e.result[1][1]>>)

RepoDelete(r, cs, fail) ==
    LET e == SessionExecute(DeleteStmt(tx, r.model, cs), fail)
    IN  Outcome("delete", r, e, FALSE, Scalars(e.result))

RepoCount(r, cs, fail) ==
    LET e == SessionExecute(CountStmt(tx, r.model, cs), fail)
    IN  Outcome("count", r, e, FALSE, IF e.result = <<>> THEN <<>> ELSE <<e.result[1][1]>>)

\* with_changed_query_model(m) on repository r: `new` is the repository it
\* returns, bound to m on r's session; `self` is r after the call.
WithChangedQueryModel(r, m) ==
    [new |-> [model |-> m, session |-> r.session], self |-> r]

(* ---------------------------- unit of work ----------------------------- *)

ScopeOpen == \E g \in Flows : scope[g] \in {"outer", "nested"}

\* Kind of scope pipeline opens: the transaction scope, a savepoint inside
\* an open one when the backend nests, else the entry is an error.
EnterKind ==
    IF ~ScopeOpen THEN "outer"
    ELSE IF nestedOk /\ ~aborted THEN "nested"
    ELSE "error"

\* Scopes left after f's scope is closed: closing the transaction scope
\* ends the savepoints inside it.
Closed(f) ==
    [g \in Flows |-> IF g = f THEN "none"
                     ELSE IF scope[f] = "outer" /\ scope[g] = "nested" THEN "dead"
                     ELSE scope[g]]

\* Error exit of f's scope with the session at (t, ab): roll back.
Rollback(f, t, ab) ==
    CASE scope[f] = "outer" -> [db |-> db, tx |-> db, aborted |-> FALSE]
      [] scope[f] = "nested" -> [db |-> db, tx |-> savepoint[f], aborted |-> FALSE]
      [] OTHER -> [db |-> db, tx |-> t, aborted |-> ab]

\* Normal exit of f's scope: commit (release, for a savepoint); a commit
\* that fails rolls back and raises.
Commit(f, fail) ==
    CASE scope[f] = "outer" ->
            IF fail THEN Rollback(f, tx, aborted) @@ [err |-> "ConnectionFailure"]
            ELSE [db |-> tx, tx |-> tx, aborted |-> FALSE, err |-> "none"]
      [] scope[f] = "nested" ->
            IF fail \/ aborted
            THEN Rollback(f, tx, aborted) @@
                 [err |-> IF aborted THEN "InFailedTransaction" ELSE "ConnectionFailure"]
            ELSE [db |-> db, tx |-> tx, aborted |-> FALSE, err |-> "none"]
      [] OTHER -> [db |-> db, tx |-> tx, aborted |-> aborted, err |-> "none"]

(* ------------------------------- actions ------------------------------- *)

\* A repository the caller built on the session for model m.
ClientRepo(m) == [model |-> m, session |-> repository.session]

\* A caller of the repository outside the handler runs between handle()
\* calls.
ClientMayRun == \A f \in Flows : pc[f] = "idle"

\* The session and the last-call record after a repository call by `by`.
Apply(o, by) ==
    /\ tx' = o.t
    /\ aborted' = o.aborted
    /\ stmtErr' = o.stmtErr
    /\ ret' = [o.ret EXCEPT !.by = by]

HandlerVars == <<repository, pc, cmd, scope, savepoint, entryDb, concurrent, nestedOk>>

\* Identity values drawn so far.
Drawn == seq["orders"] + seq["products"] + seq["order_items"] - 3

\* The server draws the identity value before it checks any constraint.
SeqAfterInsert(m, fail) ==
    IF aborted \/ fail THEN seq ELSE [seq EXCEPT ![m] = @ + 1]

\* Add gone wrong: the method commits the session after the insert.
AddCommitting(m, V, fail) ==
    /\ ClientMayRun
    /\ Drawn < MaxInserts
    /\ Apply(RepoAdd(ClientRepo(m), V, fail), "client")
    /\ seq' = SeqAfterInsert(m, fail)
    /\ db' = tx'
    /\ UNCHANGED HandlerVars

Add(m, V, fail) ==
    /\ ClientMayRun
    /\ Drawn < MaxInserts
    /\ Apply(RepoAdd(ClientRepo(m), V, fail), "client")
    /\ seq' = SeqAfterInsert(m, fail)
    /\ UNCHANGED <<db, HandlerVars>>

GetAll(m, cs, fail) ==
    /\ ClientMayRun
    /\ Apply(RepoGetAll(ClientRepo(m), cs, fail), "client")
    /\ UNCHANGED <<db, seq, HandlerVars>>

GetOne(m, cs, fail) ==
    /\ ClientMayRun
    /\ Apply(RepoGetOne(ClientRepo(m), cs, fail), "client")
    /\ UNCHANGED <<db, seq, HandlerVars>>

Update(m, cs, V, fail) ==
    /\ ClientMayRun
    /\ Apply(RepoUpdate(ClientRepo(m), cs, V, fail), "client")
    /\ UNCHANGED <<db, seq, HandlerVars>>

Exists(m, cs, fail) ==
    /\ ClientMayRun
    /\ Apply(RepoExists(ClientRepo(m), cs, fail), "client")
    /\ UNCHANGED <<db, seq, HandlerVars>>

Delete(m, cs, fail) ==
    /\ ClientMayRun
    /\ Apply(RepoDelete(ClientRepo(m), cs, fail), "client")
    /\ UNCHANGED <<db, seq, HandlerVars>>

Count(m, cs, fail) ==
    /\ ClientMayRun
    /\ Apply(RepoCount(ClientRepo(m), cs, fail), "client")
    /\ UNCHANGED <<db, seq, HandlerVars>>

\* handle() of flow f completed: Result.success(None), or the error err
\* that left the scope.
Handled(f, err) ==
    [op |-> "handle", model |-> repository.model, session |-> repository.session,
     by |-> f, err |-> err, none |-> FALSE, value |-> <<>>]

\* ExitWithError gone wrong: the scope commits on the way out of an error.
ExitCommitting(f, t, ab, err) ==
    /\ db' = t
    /\ tx' = t
    /\ aborted' = FALSE
    /\ scope' = Closed(f)
    /\ pc' = [pc EXCEPT ![f] = "idle"]
    /\ ret' = Handled(f, err)
    /\ cmd' = [cmd EXCEPT ![f] = 1]
    /\ savepoint' = [savepoint EXCEPT ![f] = EmptyDb]
    /\ entryDb' = [entryDb EXCEPT ![f] = EmptyDb]

\* The scope of f ends with the error err, the session being at (t, ab).
ExitWithError(f, t, ab, err) ==
    LET r == Rollback(f, t, ab) IN
    /\ db' = r.db
    /\ tx' = r.tx
    /\ aborted' = r.aborted
    /\ scope' = Closed(f)
    /\ pc' = [pc EXCEPT ![f] = "idle"]
    /\ ret' = Handled(f, err)
    /\ cmd' = [cmd EXCEPT ![f] = 1]
    /\ savepoint' = [savepoint EXCEPT ![f] = EmptyDb]
    /\ entryDb' = [entryDb EXCEPT ![f] = EmptyDb]

\* HandleEnter gone wrong: the body runs although the scope entry failed.
HandleEnterUnchecked(f, oid) ==
    /\ f \in Running
    /\ pc[f] = "idle"
    /\ ret' = NoRet
    /\ pc' = [pc EXCEPT ![f] = "entered"]
    /\ cmd' = [cmd EXCEPT ![f] = oid]
    /\ scope' = [scope EXCEPT ![f] = IF ScopeOpen THEN "nested" ELSE "outer"]
    /\ savepoint' = [savepoint EXCEPT ![f] = IF ScopeOpen THEN tx ELSE EmptyDb]
    /\ entryDb' = [entryDb EXCEPT ![f] = db]
    /\ UNCHANGED <<db, tx, aborted, seq, repository, stmtErr, concurrent, nestedOk>>

\* handle(event): async with self._uow.pipeline
HandleEnter(f, oid) ==
    /\ f \in Running
    /\ pc[f] = "idle"
    /\ IF EnterKind = "error"
       THEN /\ ret' = Handled(f, "NestedScope")
            /\ UNCHANGED <<pc, cmd, scope, savepoint, entryDb>>
       ELSE /\ ret' = NoRet
            /\ pc' = [pc EXCEPT ![f] = "entered"]
            /\ cmd' = [cmd EXCEPT ![f] = oid]
            /\ scope' = [scope EXCEPT ![f] = EnterKind]
            /\ savepoint' = [savepoint EXCEPT ![f] = IF EnterKind = "nested" THEN tx ELSE EmptyDb]
            /\ entryDb' = [entryDb EXCEPT ![f] = db]
    /\ UNCHANGED <<db, tx, aborted, seq, repository, stmtErr, concurrent, nestedOk>>

\* One delete of handle(): rebind the stored repository to model m and
\* delete the rows whose column col equals event.order_id. An error leaves
\* the scope.
HandleDelete(f, fail, at, next, m, col) ==
    /\ pc[f] = at
    /\ LET w == WithChangedQueryModel(repository, m)
           o == RepoDelete(w.new, {[col |-> col, val |-> cmd[f]]}, fail)
       IN  /\ repository' = w.self
           /\ stmtErr' = o.stmtErr
           /\ IF o.ret.err = "none"
              THEN /\ ret' = [o.ret EXCEPT !.by = f]
                   /\ tx' = o.t
                   /\ aborted' = o.aborted
                   /\ pc' = [pc EXCEPT ![f] = next]
                   /\ UNCHANGED <<db, cmd, scope, savepoint, entryDb>>
              ELSE ExitWithError(f, o.t, o.aborted, o.ret.err)
    /\ UNCHANGED <<seq, concurrent, nestedOk>>

\* with_changed_query_model(OrderModel).delete(OrderModel.id == event.order_id)
HandleDeleteOrder(f, fail) ==
    HandleDelete(f, fail, "entered", "order_deleted", "orders", "id")

\* HandleDeleteOrderItems gone wrong: the delete goes through the stored
\* repository, still bound to orders.
HandleDeleteOrderItemsUnbound(f, fail) ==
    HandleDelete(f, fail, "order_deleted", "items_deleted", repository.model, "id")

\* with_changed_query_model(OrderItemModel).delete(OrderItemModel.order_id == event.order_id)
HandleDeleteOrderItems(f, fail) ==
    HandleDelete(f, fail, "order_deleted", "items_deleted", "order_items", "order_id")

\* End of the async with block, then return Result.success(None).
HandleExit(f, fail) ==
    /\ pc[f] = "items_deleted"
    /\ LET c == Commit(f, fail) IN
       /\ db' = c.db
       /\ tx' = c.tx
       /\ aborted' = c.aborted
       /\ ret' = Handled(f, c.err)
    /\ scope' = Closed(f)
    /\ pc' = [pc EXCEPT ![f] = "idle"]
    /\ cmd' = [cmd EXCEPT ![f] = 1]
    /\ savepoint' = [savepoint EXCEPT ![f] = EmptyDb]
    /\ entryDb' = [entryDb EXCEPT ![f] = EmptyDb]
    /\ UNCHANGED <<seq, repository, stmtErr, concurrent, nestedOk>>

\* The task running handle() is cancelled at one of its await points.
HandleCancel(f) ==
    /\ pc[f] \in {"entered", "order_deleted", "items_deleted"}
    /\ ExitWithError(f, tx, aborted, "Cancelled")
    /\ UNCHANGED <<seq, repository, stmtErr, concurrent, nestedOk>>

(* ---------------------------- specification ---------------------------- *)

\* The state after construction: empty tables, one handler on one session.
Init ==
    /\ db = EmptyDb
    /\ tx = EmptyDb
    /\ aborted = FALSE
    /\ seq = [m \in Models |-> 1]
    /\ repository = [model |-> "orders", session |-> "s1"]
    /\ pc = [f \in Flows |-> "idle"]
    /\ cmd = [f \in Flows |-> 1]
    /\ scope = [f \in Flows |-> "none"]
    /\ savepoint = [f \in Flows |-> EmptyDb]
    /\ entryDb = [f \in Flows |-> EmptyDb]
    /\ ret = NoRet
    /\ stmtErr = "none"
    /\ concurrent = FALSE
    /\ nestedOk = FALSE

\* The tables after one order, one product and the order's item were
\* inserted and committed.
Scenario ==
    [m \in Models |->
        CASE m = "orders" -> {OrderRow(1, 1)}
          [] m = "products" -> {ProductRow(1, 500, 2)}
          [] m = "order_items" -> {OrderItemRow(1, 1, 1, 3)}]

\* Two tasks about to call handle() on the same handler (same repository,
\* same unit of work), on a backend with or without nested scopes.
InitConc ==
    /\ db = Scenario
    /\ tx = Scenario
    /\ aborted = FALSE
    /\ seq = [m \in Models |-> 2]
    /\ repository = [model |-> "orders", session |-> "s1"]
    /\ pc = [f \in Flows |-> "idle"]
    /\ cmd = [f \in Flows |-> 1]
    /\ scope = [f \in Flows |-> "none"]
    /\ savepoint = [f \in Flows |-> EmptyDb]
    /\ entryDb = [f \in Flows |-> EmptyDb]
    /\ ret = NoRet
    /\ stmtErr = "none"
    /\ concurrent = TRUE
    /\ nestedOk \in BOOLEAN

Writes ==
    \/ \E m \in Models, fail \in BOOLEAN : \E V \in Args(ValuesOf(m), fail) : Add(m, V, fail)
    \/ \E m \in Models, fail \in BOOLEAN :
          \E cs \in Args(UpdateClauseSets(m), fail), V \in Args(SetValuesOf(m), fail) :
            Update(m, cs, V, fail)
    \/ \E m \in Models, fail \in BOOLEAN : \E cs \in Args(ClauseSets(m), fail) : Delete(m, cs, fail)

Handle ==
    \/ \E f \in Flows, oid \in IdsOf("orders") : HandleEnter(f, oid)
    \/ \E f \in Flows, fail \in BOOLEAN : HandleDeleteOrder(f, fail)
    \/ \E f \in Flows, fail \in BOOLEAN : HandleDeleteOrderItems(f, fail)
    \/ \E f \in Flows, fail \in BOOLEAN : HandleExit(f, fail)
    \/ \E f \in Flows : HandleCancel(f)

\* The handler and the writes that fill the tables it deletes from. Reads
\* change neither the tables nor the handler and are left to NextRepo.
Next ==
    \/ Writes
    \/ Handle

\* The seven methods of the repository, called on one session.
NextRepo ==
    \/ Writes
    \/ \E m \in Models, fail \in BOOLEAN : \E cs \in Args(ClauseSets(m), fail) : GetAll(m, cs, fail)
    \/ \E m \in Models, fail \in BOOLEAN : \E cs \in Args(ClauseSets(m), fail) : GetOne(m, cs, fail)
    \/ \E m \in Models, fail \in BOOLEAN : \E cs \in Args(ClauseSets(m), fail) : Exists(m, cs, fail)
    \/ \E m \in Models, fail \in BOOLEAN : \E cs \in Args(ClauseSets(m), fail) : Count(m, cs, fail)

Spec == Init /\ [][Next]_vars

SpecRepo == Init /\ [][NextRepo]_vars

\* Concurrent handle() calls.
NextConc == Handle

SpecConc == InitConc /\ [][NextConc]_vars

TypeOK ==
    /\ aborted \in BOOLEAN
    /\ \A m \in Models : seq[m] \in 1..(MaxInserts + 1)
    /\ \A f \in Flows : pc[f] \in {"idle", "entered", "order_deleted", "items_deleted"}

(* ----------------------- claims on the repository ---------------------- *)

\* A step in which a caller outside the handler completed a repository call.
ClientStep == (\A f \in Flows : pc[f] = "idle") /\ pc' = pc /\ ret'.by = "client"

\* The row add(V) inserts into m, were nothing to reject it.
Inserted(m, V) == NewRow(m, V, seq[m])

\* C2 (as claimed): count() without clauses returns the length of the list
\* get_all() without clauses returns, whatever the table holds.
C2_CountEqualsLenGetAll ==
    [][\A m \in Models :
          (ret'.op = "count" /\ Count(m, {}, FALSE) /\ ~aborted) =>
              ret'.value = <<Scalar(Len(RepoGetAll(ClientRepo(m), {}, FALSE).ret.value))>>]_vars

\* C3 (as claimed): delete(clauses) returns the matching rows as entities,
\* removes exactly those rows, and get_all(clauses) is empty afterwards.
C3_DeleteReturnsEntities ==
    [][\A m \in Models : \A cs \in ClauseSets(m) :
          (ret'.op = "delete" /\ Delete(m, cs, FALSE) /\ ~aborted) =>
              /\ ret'.value = [i \in 1..Cardinality(Matching(tx, m, cs)) |->
                                  Entity(ById(Matching(tx, m, cs))[i])]
              /\ tx'[m] = tx[m] \ Matching(tx, m, cs)
              /\ SelectStmt(tx', m, cs).result = <<>>]_vars

\* C5: nothing but the insert conflict of add is swallowed. A repository call
\* raises exactly the error its session raised; an add that conflicts with an
\* existing row returns None and leaves the tables as they were; an add that
\* violates a NOT NULL or a foreign-key constraint raises; and a call on a
\* failing connection or in an aborted transaction raises, whatever the method.
C5_OnlyConflictSwallowed ==
    [][ClientStep =>
          /\ ret'.err = stmtErr'
          /\ (aborted => ret'.err = "InFailedTransaction")
          /\ (ret'.err # "none" => ~ret'.none /\ ret'.value = <<>>)
          /\ \A m \in {ret'.model} :
                /\ ret'.op = "add" =>
                      /\ \A V \in ValuesOf(m) :
                            (Add(m, V, FALSE) /\ ~aborted) =>
                                IF NotNullViolated(m, Inserted(m, V))
                                THEN ret'.err = "ConstraintViolation"
                                ELSE IF UniqueConflict(tx, m, Inserted(m, V))
                                THEN ret'.err = "none" /\ ret'.none /\ tx' = tx /\ db' = db
                                ELSE IF ForeignKeyViolated(tx, m, Inserted(m, V))
                                THEN ret'.err = "ConstraintViolation"
                                ELSE ret'.err = "none" /\ tx' # tx
                      /\ \A V \in Args(ValuesOf(m), TRUE) :
                            (Add(m, V, TRUE) /\ ~aborted) => ret'.err = "ConnectionFailure"
                /\ \A cs \in Args(ClauseSets(m), TRUE) :
                      /\ \A V \in Args(SetValuesOf(m), TRUE) :
                            (Update(m, cs, V, TRUE) /\ ~aborted) => ret'.err = "ConnectionFailure"
                      /\ (Delete(m, cs, TRUE) /\ ~aborted) => ret'.err = "ConnectionFailure"
                      /\ (GetOne(m, cs, TRUE) /\ ~aborted) => ret'.err = "ConnectionFailure"
                      /\ (GetAll(m, cs, TRUE) /\ ~aborted) => ret'.err = "ConnectionFailure"
                      /\ (Exists(m, cs, TRUE) /\ ~aborted) => ret'.err = "ConnectionFailure"
                      /\ (Count(m, cs, TRUE) /\ ~aborted) => ret'.err = "ConnectionFailure"
       ]_vars

\* C5 witness: an update of order_items violated a constraint (the unique
\* order_id, or a foreign key) and the error reached the caller.
C5_Witness ==
    /\ ret.by = "client" /\ ret.op = "update" /\ ret.model = "order_items"
    /\ ret.err = "ConstraintViolation"
    /\ aborted

\* C8 (as claimed): add(V) returns the generated identity, and get_one on
\* that identity then returns a row whose fields, identity and server
\* defaults aside, equal V.
C8_AddReturnsIdentity ==
    [][\A m \in Models : \A V \in ValuesOf(m) :
          (ret'.op = "add" /\ Add(m, V, FALSE) /\ ~aborted /\ tx' # tx) =>
              /\ ~ret'.none
              /\ ret'.value = <<Scalar(seq[m])>>
              /\ \A id \in {seq[m]} :
                    LET got == (RepoGetOne(ClientRepo(m), {[col |-> "id", val |-> id]}, FALSE))'
                    IN  /\ got.ret.err = "none" /\ ~got.ret.none
                        /\ \A c \in SettableCols(m) :
                              V[c] # NULL => got.ret.value[1].obj[1][c] = V[c]]_vars

\* C8 (amended): add(V) returns None, not the identity. When the insert is
\* not rejected and does not conflict, the table gains exactly one row, its
\* identity is the next value of the table's sequence, and get_one on that
\* identity then returns that row: the supplied fields equal V, an omitted
\* weight or quantity holds the server default, an omitted product_id NULL.
C8_AddThenGetOne ==
    [][\A m \in Models : \A V \in ValuesOf(m) :
          (ret'.op = "add" /\ Add(m, V, FALSE) /\ ~aborted /\ ret'.err = "none") =>
              /\ ret'.none /\ ret'.value = <<>>
              /\ seq'[m] = seq[m] + 1
              /\ tx' # tx =>
                    \A id \in {seq[m]} :
                    LET got == (RepoGetOne(ClientRepo(m), {[col |-> "id", val |-> id]}, FALSE))'
                    IN  /\ got.ret.err = "none" /\ ~got.ret.none
                        /\ Len(got.ret.value) = 1
                        /\ tx'[m] = tx[m] \cup {got.ret.value[1].obj[1]}
                        /\ got.ret.value[1].obj[1] \notin tx[m]
                        /\ got.ret.value[1].obj[1].id = id
                        /\ \A c \in SettableCols(m) :
                              got.ret.value[1].obj[1][c] =
                                  IF V[c] # NULL THEN V[c]
                                  ELSE IF c \in {"weight", "quantity"} THEN ServerDefaultOne
                                  ELSE NULL]_vars

\* C8 witness: an order item was added with an explicit quantity and is in
\* the table under the identity the sequence handed out.
C8_Witness ==
    /\ ret.by = "client" /\ ret.op = "add" /\ ret.model = "order_items"
    /\ ret.err = "none" /\ ret.none
    /\ \E i \in tx["order_items"] : i.id = seq["order_items"] - 1 /\ i.quantity = 3

IdsIn(rows) == {r.id : r \in rows}

\* Every order item references an order, and a product when it names one.
RefIntegrity(t) ==
    \A i \in t["order_items"] :
        /\ i.order_id \in IdsIn(t["orders"])
        /\ (i.product_id = NULL \/ i.product_id \in IdsIn(t["products"]))

\* handle() of flow f ends in this step.
Returns(f) == pc[f] # "idle" /\ pc'[f] = "idle"

\* C1: when the scope opened by handle() is left with an error, before the
\* Order delete, between the two deletes or after both, the error reaches the
\* caller of handle() and the committed tables are those of the scope's
\* entry, with nothing of the scope left pending on the session; the
\* committed tables change only when a scope is left normally, after both
\* deletes, and then become what the session saw.
C1_ScopeAtomic ==
    [][/\ \A f \in Flows :
             Returns(f) =>
                 /\ ret'.op = "handle" /\ ret'.by = f
                 /\ (pc[f] \in {"entered", "order_deleted"} => ret'.err # "none")
                 /\ (ret'.err # "none" =>
                        /\ db' = entryDb[f]
                        /\ db' = db
                        /\ tx' = db')
                 /\ (ret'.err = "none" => db' = tx /\ tx' = tx)
       /\ (db' # db =>
              \E f \in Flows :
                  pc[f] = "items_deleted" /\ Returns(f) /\ ret'.err = "none")]_vars

\* C1 witness: both deletes of a handle() call succeeded, the commit failed,
\* and the committed tables still hold an order and its item.
C1_Witness ==
    /\ ret.op = "handle" /\ ret.err = "ConnectionFailure" /\ stmtErr = "none"
    /\ \E i \in db["order_items"] : i.order_id \in IdsIn(db["orders"])
    /\ tx = db

\* C4: order items always reference existing rows; deleting orders through
\* the repository, from the handler or not, also deletes the order items of
\* those orders and no others; and the handler's own OrderItem delete finds
\* nothing to delete.
C4_CascadeKeepsReferences ==
    /\ [](RefIntegrity(tx) /\ RefIntegrity(db))
    /\ [][/\ \A f \in Flows :
                 /\ (HandleDeleteOrder(f, FALSE) /\ ~aborted) =>
                        /\ tx'["orders"] = {o \in tx["orders"] : o.id # cmd[f]}
                        /\ tx'["order_items"] =
                              {i \in tx["order_items"] : i.order_id # cmd[f]}
                 /\ (HandleDeleteOrderItems(f, FALSE) /\ ~aborted) =>
                        ret'.op = "delete" /\ ret'.value = <<>> /\ tx' = tx
           /\ (ClientStep /\ ret'.op = "delete" /\ ret'.model = "orders"
                  /\ ret'.err = "none") =>
                  /\ tx'["orders"] \subseteq tx["orders"]
                  /\ tx'["order_items"] =
                        {i \in tx["order_items"] : i.order_id \in IdsIn(tx'["orders"])}]_vars

\* C4 witness: the handler deleted an order whose item was committed; the
\* item is gone from the session before the OrderItem delete, which
\* returned nothing.
C4_Witness ==
    /\ pc["f1"] = "items_deleted" /\ ~aborted
    /\ ret.op = "delete" /\ ret.model = "order_items" /\ ret.value = <<>>
    /\ \E i \in db["order_items"] : i.order_id = cmd["f1"]
    /\ \A i \in tx["order_items"] : i.order_id # cmd["f1"]

\* C6: the handler's stored repository stays bound to orders on its session
\* through every handle() call, while the Order delete runs on orders and
\* the OrderItem delete on order_items, both on that session and inside the
\* scope the call opened.
C6_RebindKeepsOriginal ==
    /\ [](repository = [model |-> "orders", session |-> "s1"])
    /\ [][\A f \in Flows :
             /\ (pc[f] = "entered" /\ pc'[f] = "order_deleted") =>
                    /\ ret'.op = "delete" /\ ret'.by = f /\ ret'.model = "orders"
                    /\ ret'.session = repository.session
                    /\ scope[f] # "none" /\ scope'[f] = scope[f]
                    /\ tx'["orders"] = {o \in tx["orders"] : o.id # cmd[f]}
                    /\ tx'["products"] = tx["products"]
             /\ (pc[f] = "order_deleted" /\ pc'[f] = "items_deleted") =>
                    /\ ret'.op = "delete" /\ ret'.by = f /\ ret'.model = "order_items"
                    /\ ret'.session = repository.session
                    /\ scope[f] # "none" /\ scope'[f] = scope[f]
                    /\ tx'["orders"] = tx["orders"]
                    /\ tx'["products"] = tx["products"]
                    /\ tx'["order_items"] =
                          {i \in tx["order_items"] : i.order_id # cmd[f]}]_vars

\* C6 witness: both deletes of a handle() call ran, the first removed an
\* order, and the stored repository is still bound to orders.
C6_Witness ==
    /\ pc["f1"] = "items_deleted" /\ scope["f1"] = "outer"
    /\ ret.op = "delete" /\ ret.by = "f1" /\ ret.model = "order_items"
    /\ repository.model = "orders"
    /\ \E o \in db["orders"] : o.id = cmd["f1"] /\ o \notin tx["orders"]

\* C7 (as claimed): a write outside any scope is committed when the call
\* returns, and a later call that fails undoes nothing.
C7_AutoCommit ==
    [][(ClientStep /\ ret'.op \in {"add", "update", "delete"}) =>
          /\ (ret'.err = "none" => db' = tx')
          /\ (ret'.err # "none" => tx' = tx)]_vars

\* C7 (amended): no repository call commits. A write outside any scope
\* changes what the session sees and leaves the committed tables alone; a
\* call that fails aborts the session's transaction and what it held is
\* lost; the committed tables change only when a scope is left normally.
C7_NoAutoCommit ==
    [][/\ ClientStep =>
             /\ db' = db
             /\ (ret'.err = "none" => ~aborted')
             /\ (ret'.err # "none" => aborted' /\ tx' = db)
       /\ (db' # db => ret'.op = "handle" /\ ret'.err = "none" /\ db' = tx)]_vars

\* C7 witness: a write outside any scope returned normally and the session
\* holds a row that is not committed.
C7_Witness ==
    /\ \A f \in Flows : pc[f] = "idle"
    /\ ret.by = "client" /\ ret.op \in {"add", "update", "delete"} /\ ret.err = "none"
    /\ ~aborted
    /\ tx # db

(* ----------------------- claims on concurrent calls -------------------- *)

\* Flow g executes a delete in this step while the scope of another flow is
\* open.
DeletesInside(f, g) ==
    /\ f # g
    /\ scope[f] \in {"outer", "nested"}
    /\ pc[g] \in {"entered", "order_deleted"}
    /\ pc'[g] \in {"order_deleted", "items_deleted"}
    /\ pc'[g] # pc[g]

\* C9 (as claimed): no delete of one handle() call executes between the
\* scope entry and the scope exit of another.
C9_NoInterleaving ==
    [][\A f, g \in Flows : ~DeletesInside(f, g)]_vars

\* C9 (amended): exclusion comes from the backend alone. Where it rejects
\* nested scopes, a handle() call that starts while another call's scope is
\* open fails at its scope entry and executes no delete, so the deletes of
\* two calls do not interleave and at most one call is inside a scope.
C9_ExclusionWithoutNesting ==
    /\ [](~nestedOk => \A f, g \in Flows : (pc[f] # "idle" /\ pc[g] # "idle") => f = g)
    /\ [][~nestedOk =>
             \A f, g \in Flows :
                 /\ ~DeletesInside(f, g)
                 /\ (f # g /\ scope[f] # "none" /\ HandleEnter(g, cmd'[g])) =>
                        /\ ret'.op = "handle" /\ ret'.by = g /\ ret'.err = "NestedScope"
                        /\ pc'[g] = "idle" /\ tx' = tx /\ db' = db]_vars

\* C9 witness: on a backend without nested scopes, the second call failed
\* at its scope entry while the first had deleted the order.
C9_Witness ==
    /\ ~nestedOk
    /\ pc["f1"] = "order_deleted" /\ tx["orders"] # db["orders"]
    /\ ret.op = "handle" /\ ret.by = "f2" /\ ret.err = "NestedScope"

====
